---- MODULE Spec2Model ----
(***************************************************************************)
(* Model of native/main.cpp: the command-line fiducial-marker tracker.     *)
(*                                                                         *)
(* One run of the program is one behaviour.  The inputs of a run are its   *)
(* argument vector and the media file it names; the outputs are standard  *)
(* output (a sequence of frame records), standard error (a sequence of     *)
(* messages) and the way the process ends (return from main with an exit   *)
(* code, or std::terminate after an uncaught exception).                   *)
(*                                                                         *)
(* C strings are TLA+ strings; character k of s is SubSeq(s, k, k).        *)
(* argv[i] of the C program is argv[i + 1] here (sequences start at 1).    *)
(***************************************************************************)
EXTENDS Integers, Sequences, FiniteSets, TLC

VARIABLES
    argv,          \* the argument vector, argv[1] is the program name
    video,         \* the media file: [opened, length, cols, rows]
    cfg,           \* RunConfiguration
    pc,            \* position in main
    exitCode,      \* value returned by main (meaningful when pc = "exited")
    stdout,        \* records written to std::cout, in order
    stderr,        \* messages written to std::cerr, in order
    pos,           \* frames consumed from the stream so far
    failedReads,   \* video.read calls that returned false
    frame,         \* cv::Mat frame: [cols, rows], 0 x 0 when empty
    dictionary,    \* predefined dictionary handed to the detector
    cameraMatrix,  \* intrinsics: [built, fx, cx2, cy2], cx2 = 2 * cx
    i,             \* loop counter of the main loop
    markerIds,     \* result of the latest detectMarkers call
    processed,     \* history: one entry per frame handed to detectMarkers
    firstFailed    \* history: the first solvePnP call that returned false

vars == <<argv, video, cfg, pc, exitCode, stdout, stderr, pos, failedReads,
          frame, dictionary, cameraMatrix, i, markerIds, processed, firstFailed>>

----------------------------------------------------------------------------
(* Bounds of the model. *)

MaxFrames == 3

MaxMarkers == 2

MaxStart == 2

MaxEnd == 4

----------------------------------------------------------------------------
(* Strings. *)

Min(a, b) == IF a < b THEN a ELSE b

CharAt(s, k) == SubSeq(s, k, k)

Digits == {"0", "1", "2", "3", "4", "5", "6", "7", "8", "9"}

DigitValue(c) ==
    CASE c = "0" -> 0 [] c = "1" -> 1 [] c = "2" -> 2 [] c = "3" -> 3
      [] c = "4" -> 4 [] c = "5" -> 5 [] c = "6" -> 6 [] c = "7" -> 7
      [] c = "8" -> 8 [] c = "9" -> 9

\* line 153: true when str and match agree on the first
\* min(str.length(), strlen(match)) characters.
startsWith(str, match) ==
    LET end == Min(Len(str), Len(match))
    IN  \A k \in 1..end : CharAt(str, k) = CharAt(match, k)

\* Number of consecutive decimal digits of s starting at position k.
RECURSIVE DigitRun(_, _)
DigitRun(s, k) ==
    IF k <= Len(s) /\ CharAt(s, k) \in Digits
    THEN 1 + DigitRun(s, k + 1)
    ELSE 0

\* Value of the n decimal digits of s starting at position k.
RECURSIVE DigitsValue(_, _, _, _)
DigitsValue(s, k, n, acc) ==
    IF n = 0 THEN acc
    ELSE DigitsValue(s, k + 1, n - 1, 10 * acc + DigitValue(CharAt(s, k)))

\* std::stof on line 137: converts the longest numeric prefix
\* ([sign] digits [. digits]); throws std::invalid_argument when there is
\* none.  The value keeps the integer part (the arguments of the model
\* have no fractional digits other than zero).
StofStart(s) == IF Len(s) >= 1 /\ CharAt(s, 1) \in {"+", "-"} THEN 2 ELSE 1

StofIntDigits(s) == DigitRun(s, StofStart(s))

StofFracDigits(s) ==
    LET p == StofStart(s) + StofIntDigits(s)
    IN  IF p <= Len(s) /\ CharAt(s, p) = "." THEN DigitRun(s, p + 1) ELSE 0

StofThrows(s) == StofIntDigits(s) = 0 /\ StofFracDigits(s) = 0

stof(s) ==
    LET v == DigitsValue(s, StofStart(s), StofIntDigits(s), 0)
    IN  IF CharAt(s, 1) = "-" THEN 0 - v ELSE v

----------------------------------------------------------------------------
(* parseArgs, lines 111-151. *)

UsageMessage ==
    "Usage: app path_to_mediafile dictionary_name marker_size_mm\nOptional Arguments: --focalmm=[The focal length of the camera in mm]\n"

NotEnoughMessage ==
    "Not enough arguments. Usage: path_to_mediafile dictionary_name marker_size_mm"

\* lines 112-118: the defaults; the strings are default-constructed and
\* markerSizeMM is not initialised (it is only read after line 137 set it).
DefaultConfiguration ==
    [mediaFilepath |-> "", dictionaryName |-> "", markerSizeMM |-> 0,
     cameraFocalLengthMM |-> 1, startFrame |-> 0, endFrame |-> 0,
     quit |-> FALSE, printEmptyFrames |-> FALSE, errorMessage |-> ""]

\* lines 121-127
HasHelp(av) == \E k \in 1..Len(av) : av[k] = "--help" \/ av[k] = "-h"

\* lines 140-148
HasPrintEmptyFrames(av) ==
    \E k \in 5..Len(av) : startsWith(av[k], "--print-empty-frames")

\* std::stof(argv[3]) throws out of parseArgs
parseArgsThrows(av) ==
    /\ ~HasHelp(av)
    /\ Len(av) >= 4
    /\ StofThrows(av[4])

parseArgs(av) ==
    IF HasHelp(av)
    THEN [DefaultConfiguration EXCEPT !.quit = TRUE,
                                      !.errorMessage = UsageMessage]
    ELSE IF Len(av) < 4
    THEN [DefaultConfiguration EXCEPT !.quit = TRUE,
                                      !.errorMessage = NotEnoughMessage]
    ELSE [DefaultConfiguration EXCEPT
              !.mediaFilepath = av[2],
              !.dictionaryName = av[3],
              !.markerSizeMM = stof(av[4]),
              !.printEmptyFrames = HasPrintEmptyFrames(av)]

----------------------------------------------------------------------------
(* getDictFromName, lines 163-173. *)

\* the keys the map holds before the lookup
Supported ==
    {"DEFAULT", "ARUCO", "APRILTAG_16H5", "APRILTAG_25H9",
     "APRILTAG_36H10", "APRILTAG_36H11"}

SupportedValue(name) ==
    CASE name = "DEFAULT" -> "DICT_ARUCO_ORIGINAL"
      [] name = "ARUCO" -> "DICT_ARUCO_ORIGINAL"
      [] name = "APRILTAG_16H5" -> "DICT_APRILTAG_16h5"
      [] name = "APRILTAG_25H9" -> "DICT_APRILTAG_25h9"
      [] name = "APRILTAG_36H10" -> "DICT_APRILTAG_36h10"
      [] name = "APRILTAG_36H11" -> "DICT_APRILTAG_36h11"

\* A value-initialised PREDEFINED_DICTIONARY_NAME is the enumerator 0,
\* which is DICT_4X4_50.
ValueInitialisedDictionaryName == "DICT_4X4_50"

\* line 172: supported[name] on an unordered_map inserts a
\* value-initialised entry for a missing key and returns it.
getDictFromName(name) ==
    IF name \in Supported
    THEN SupportedValue(name)
    ELSE ValueInitialisedDictionaryName

NoDictionary == "none"

----------------------------------------------------------------------------
(* Records written to standard output. *)

\* printJSONL, lines 175-187: the frame index and one entry per marker id.
printJSONL(frameIndex, ids) == [frame_id |-> frameIndex, detections |-> ids]

\* line 103
EmptyFrameRecord(frameIndex) == [frame_id |-> frameIndex, detections |-> <<>>]

\* EmitFrame with the empty-frame record written whatever the flag says.
EmitFrameIgnoringFlag(out, frameIndex, ids, c) ==
    IF ids # <<>>
    THEN out
    ELSE Append(out, EmptyFrameRecord(frameIndex))

\* lines 98-104: what one loop iteration writes to std::cout.
EmitFrame(out, frameIndex, ids, c) ==
    IF ids # <<>>
    THEN out
    ELSE IF c.printEmptyFrames
    THEN Append(out, EmptyFrameRecord(frameIndex))
    ELSE out

----------------------------------------------------------------------------
(* The frame source. *)

EmptyMat == [cols |-> 0, rows |-> 0]

FrameOf(v) == [cols |-> v.cols, rows |-> v.rows]

\* SkipFrames with the result of video.read ignored.
RECURSIVE SkipFramesUnchecked(_, _, _, _)
SkipFramesUnchecked(k, p, f, c) ==
    IF k < c.startFrame
    THEN IF p < video.length
         THEN SkipFramesUnchecked(k + 1, p + 1, FrameOf(video), c)
         ELSE SkipFramesUnchecked(k + 1, p, EmptyMat, c)
    ELSE [ok |-> TRUE, pos |-> p, frame |-> f, failed |-> 0]

\* lines 46-51: the skip loop, from counter k at stream position p.
\* Returns what the loop leaves behind: whether every read succeeded, the
\* stream position, the frame buffer and the number of failed reads.
RECURSIVE SkipFrames(_, _, _, _)
SkipFrames(k, p, f, c) ==
    IF k < c.startFrame
    THEN IF p < video.length
         THEN SkipFrames(k + 1, p + 1, FrameOf(video), c)
         ELSE [ok |-> FALSE, pos |-> p, frame |-> EmptyMat, failed |-> 1]
    ELSE [ok |-> TRUE, pos |-> p, frame |-> f, failed |-> 0]

\* LoopStart with the counter started at 0.
LoopStartAtZero(c) == 0

\* line 86: the initial value of the loop counter
LoopStart(c) == c.startFrame

\* LoopCondition with the end frame included.
LoopConditionInclusive(k, c) == k <= c.endFrame \/ c.endFrame = 0

\* line 86: the loop condition
LoopCondition(k, c) == k < c.endFrame \/ c.endFrame = 0

----------------------------------------------------------------------------
(* Pose estimation, lines 95-101. *)

\* the ids the detector reports for a frame showing n markers
DetectedIds(n) == [k \in 1..n |-> k]

\* SolveAll that leaves the loop at the first call that returns false.
RECURSIVE SolveAllStopOnFailure(_, _, _, _)
SolveAllStopOnFailure(k, markerCount, solved, calls) ==
    IF k <= markerCount
    THEN IF solved[k]
         THEN SolveAllStopOnFailure(k + 1, markerCount, solved, Append(calls, k))
         ELSE Append(calls, k)
    ELSE calls

\* The loop over the detected markers: solvePnP is called for marker k and
\* its return value (solved[k], false when the solve fails) is discarded.
\* Returns the markers it was called for.
RECURSIVE SolveAll(_, _, _, _)
SolveAll(k, markerCount, solved, calls) ==
    IF k <= markerCount
    THEN SolveAll(k + 1, markerCount, solved, Append(calls, k))
    ELSE calls

NoFailure == [frame_id |-> -1, marker |-> 0]

\* the first of the calls made for frame frameIndex that returned false
FirstFailure(frameIndex, calls, solved) ==
    LET bad == {k \in 1..Len(calls) : ~solved[calls[k]]}
    IN  IF bad = {} THEN NoFailure
        ELSE [frame_id |-> frameIndex,
              marker |-> calls[CHOOSE k \in bad : \A m \in bad : k <= m]]

----------------------------------------------------------------------------
(* Initial states. *)

FrameSizes == {[cols |-> 4, rows |-> 2], [cols |-> 6, rows |-> 4]}

Videos ==
    {[opened |-> FALSE, length |-> 0, cols |-> 0, rows |-> 0]}
    \cup {[opened |-> TRUE, length |-> n, cols |-> s.cols, rows |-> s.rows] :
            n \in 0..MaxFrames, s \in FrameSizes}

Prog == "app"

Media == "video.mp4"

DictArgs == Supported \cup {"BOGUS", "aruco"}

SizeArgs == {"50.0", "5x", "abc", "--print-empty-frames"}

ExtraArgs ==
    {<<>>, <<"--print-empty-frames">>, <<"-v">>, <<"--p">>,
     <<"-v", "--print-empty-frames">>, <<"--focalmm=35">>, <<"--help">>}

ArgvChoices ==
    {<<Prog>>, <<Prog, "-h">>, <<Prog, "--help">>, <<Prog, Media>>,
     <<Prog, Media, "ARUCO">>, <<Prog, "-h", "ARUCO", "50.0">>,
     <<Prog, Media, "ARUCO", "--help">>, <<Prog, Media, "-h", "abc">>}
    \cup {<<Prog, Media, d, "50.0">> : d \in DictArgs}
    \cup {<<Prog, Media, "BOGUS", "50.0", "--print-empty-frames">>}
    \cup {<<Prog, Media, "ARUCO", s>> \o e : s \in SizeArgs, e \in ExtraArgs}

InitRun ==
    /\ exitCode = 0
    /\ stdout = <<>>
    /\ stderr = <<>>
    /\ pos = 0
    /\ failedReads = 0
    /\ frame = EmptyMat
    /\ dictionary = NoDictionary
    /\ cameraMatrix = [built |-> FALSE, fx |-> 0, cx2 |-> 0, cy2 |-> 0]
    /\ i = 0
    /\ markerIds = <<>>
    /\ processed = <<>>
    /\ firstFailed = NoFailure

Init ==
    /\ argv \in ArgvChoices
    /\ video \in Videos
    /\ cfg = DefaultConfiguration
    /\ pc = "parseArgs"
    /\ InitRun

----------------------------------------------------------------------------
(* main, lines 32-109. *)

TerminateMessage == "terminate called after throwing an instance of 'std::invalid_argument'"

\* line 33.  An exception leaving parseArgs is caught nowhere:
\* std::terminate ends the process by abort(); whether it reports the
\* exception on standard error is up to the runtime.
ParseArgs ==
    /\ pc = "parseArgs"
    /\ IF parseArgsThrows(argv)
       THEN /\ pc' = "aborted"
            /\ stderr' \in {stderr, Append(stderr, TerminateMessage)}
            /\ cfg' = cfg
       ELSE /\ pc' = "configured"
            /\ cfg' = parseArgs(argv)
            /\ stderr' = stderr
    /\ UNCHANGED <<argv, video, exitCode, stdout, pos, failedReads, frame,
                   dictionary, cameraMatrix, i, markerIds, processed,
                   firstFailed>>

\* lines 34-37
CheckQuit ==
    /\ pc = "configured"
    /\ IF cfg.quit
       THEN /\ stderr' = Append(stderr, cfg.errorMessage)
            /\ exitCode' = -1
            /\ pc' = "exited"
       ELSE /\ pc' = "open"
            /\ UNCHANGED <<stderr, exitCode>>
    /\ UNCHANGED <<argv, video, cfg, stdout, pos, failedReads, frame,
                   dictionary, cameraMatrix, i, markerIds, processed,
                   firstFailed>>

\* lines 40-51: open the video and discard startFrame frames.
OpenVideo ==
    /\ pc = "open"
    /\ IF ~video.opened
       THEN /\ stderr' = Append(stderr, "Failed to open video stream")
            /\ exitCode' = -1
            /\ pc' = "exited"
            /\ UNCHANGED <<pos, failedReads, frame>>
       ELSE LET r == SkipFrames(0, pos, frame, cfg)
            IN  /\ pos' = r.pos
                /\ frame' = r.frame
                /\ failedReads' = failedReads + r.failed
                /\ IF r.ok
                   THEN /\ pc' = "setup"
                        /\ UNCHANGED <<stderr, exitCode>>
                   ELSE /\ stderr' = Append(stderr,
                               "Start frame was greater than video length.")
                        /\ exitCode' = -1
                        /\ pc' = "exited"
    /\ UNCHANGED <<argv, video, cfg, stdout, dictionary, cameraMatrix, i,
                   markerIds, processed, firstFailed>>

\* lines 55-86: resolve the dictionary, build the camera intrinsics from
\* the frame buffer, enter the main loop.
Setup ==
    /\ pc = "setup"
    /\ dictionary' = getDictFromName(cfg.dictionaryName)
    /\ cameraMatrix' = [built |-> TRUE, fx |-> cfg.cameraFocalLengthMM,
                        cx2 |-> frame.cols, cy2 |-> frame.rows]
    /\ i' = LoopStart(cfg)
    /\ pc' = "loop"
    /\ UNCHANGED <<argv, video, cfg, exitCode, stdout, stderr, pos,
                   failedReads, frame, markerIds, processed, firstFailed>>

\* lines 86-105, one iteration whose read succeeds: detect, solve, emit.
\* The environment chooses how many markers the frame shows and which
\* solvePnP calls report failure.
LoopBody ==
    /\ pc = "loop"
    /\ LoopCondition(i, cfg)
    /\ pos < video.length
    /\ \E markerCount \in 0..MaxMarkers :
       \E solved \in [1..markerCount -> BOOLEAN] :
          LET ids == DetectedIds(markerCount)
              calls == IF ids # <<>>
                       THEN SolveAll(1, markerCount, solved, <<>>)
                       ELSE <<>>
          IN  /\ markerIds' = ids
              /\ processed' = Append(processed,
                     [frame_id |-> i, position |-> pos,
                      markerCount |-> markerCount, solves |-> calls])
              /\ firstFailed' =
                     IF firstFailed = NoFailure
                     THEN FirstFailure(i, calls, solved)
                     ELSE firstFailed
              /\ stdout' = EmitFrame(stdout, i, ids, cfg)
    /\ pos' = pos + 1
    /\ frame' = FrameOf(video)
    /\ i' = i + 1
    /\ UNCHANGED <<argv, video, cfg, pc, exitCode, stderr, failedReads,
                   dictionary, cameraMatrix>>

\* lines 86-88 and 107-108: the loop ends, by its condition or by a failed
\* read; the video is released and main returns 0.
LoopEnd ==
    /\ pc = "loop"
    /\ IF LoopCondition(i, cfg)
       THEN /\ pos >= video.length
            /\ failedReads' = failedReads + 1
            /\ frame' = EmptyMat
       ELSE UNCHANGED <<failedReads, frame>>
    /\ exitCode' = 0
    /\ pc' = "exited"
    /\ UNCHANGED <<argv, video, cfg, stdout, stderr, pos, dictionary,
                   cameraMatrix, i, markerIds, processed, firstFailed>>

Run == OpenVideo \/ Setup \/ LoopBody \/ LoopEnd

Next == ParseArgs \/ CheckQuit \/ Run

Spec == Init /\ [][Next]_vars

----------------------------------------------------------------------------
(* main over every RunConfiguration: lines 39-108 started from an          *)
(* arbitrary valid configuration, start and end frame included.            *)

Configurations ==
    {[DefaultConfiguration EXCEPT
          !.mediaFilepath = Media,
          !.dictionaryName = "ARUCO",
          !.markerSizeMM = 50,
          !.startFrame = s,
          !.endFrame = e,
          !.printEmptyFrames = p] :
       s \in 0..MaxStart, e \in 0..MaxEnd, p \in BOOLEAN}

InitCfg ==
    /\ argv = <<Prog, Media, "ARUCO", "50.0">>
    /\ video \in Videos
    /\ cfg \in Configurations
    /\ pc = "open"
    /\ InitRun

SpecCfg == InitCfg /\ [][Run]_vars

\* main is sequential code: a step that can be taken is taken.
FairSpecCfg == SpecCfg /\ WF_vars(Run)

----------------------------------------------------------------------------
(* Properties. *)

Exited == pc = "exited"

Max(a, b) == IF a < b THEN b ELSE a

\* the run got past parseArgs and the quit check
Configured == pc \in {"open", "setup", "loop"} \/ (Exited /\ ~cfg.quit)

\* positions in stdout of the records carrying frame index n
RecordsOf(n) == {r \in 1..Len(stdout) : stdout[r].frame_id = n}

\* the frame indices detection ran on, in order
DetectedFrames == [k \in 1..Len(processed) |-> processed[k].frame_id]

\* the sequence a, a + 1, ..., b - 1
Range(a, b) == [k \in 1..(IF b > a THEN b - a ELSE 0) |-> a + k - 1]

\* C1: every frame in which the detector found a marker has exactly one
\* record on standard output, carrying the frame's index and one entry per
\* detected marker id.
C1_RecordPerDetectionFrame ==
    \A k \in 1..Len(processed) :
        processed[k].markerCount > 0 =>
            /\ Cardinality(RecordsOf(processed[k].frame_id)) = 1
            /\ \A r \in RecordsOf(processed[k].frame_id) :
                   stdout[r] = printJSONL(processed[k].frame_id,
                                          DetectedIds(processed[k].markerCount))

\* C2: a frame with zero detections has a record on standard output
\* exactly when printEmptyFrames is set; the record carries the frame's
\* own stream index and an empty detection list; the run goes on after
\* such a frame and does not end in failure.
C2_EmptyFrameRecordIffFlag ==
    \A k \in 1..Len(processed) :
        processed[k].markerCount = 0 =>
            /\ Cardinality(RecordsOf(processed[k].frame_id)) =
                   (IF cfg.printEmptyFrames THEN 1 ELSE 0)
            /\ \A r \in RecordsOf(processed[k].frame_id) :
                   stdout[r] = EmptyFrameRecord(processed[k].position)
            /\ pc \in {"loop", "exited"}
            /\ Exited => exitCode = 0
            /\ (k = Len(processed) /\ pc = "loop") => i = processed[k].frame_id + 1

C2_Witness ==
    /\ Exited
    /\ cfg.printEmptyFrames
    /\ Len(processed) = 3
    /\ processed[1].markerCount = 0
    /\ processed[2].markerCount > 0
    /\ processed[3].markerCount = 0
    /\ Len(stdout) = 2

\* C3: with a dictionary name outside the supported set the run fails: no
\* frame is read, no detection runs, nothing is written to standard output.
C3_UnknownDictionaryFails ==
    (Configured /\ cfg.dictionaryName \notin Supported) =>
        /\ pos = 0
        /\ failedReads = 0
        /\ processed = <<>>
        /\ stdout = <<>>
        /\ pc # "loop"
        /\ Exited => exitCode # 0

\* C4: when an argument is -h or --help the run prints the usage text and
\* exits with code 0 without opening the media file.
C4_HelpExitsZero ==
    HasHelp(argv) =>
        /\ pc \in {"parseArgs", "configured", "exited"}
        /\ Exited => (exitCode = 0 /\ stderr = <<UsageMessage>> /\ pos = 0)

\* C5: with fewer than three positional arguments, or a marker size that
\* does not parse as a number, the run exits with code -1 after a message
\* on standard error, before the media file is opened and with nothing on
\* standard output.
ConfigurationError ==
    ~HasHelp(argv) /\ (Len(argv) < 4 \/ StofThrows(argv[4]))

C5_ConfigurationErrorExits ==
    ConfigurationError =>
        /\ pc \in {"parseArgs", "configured", "exited"}
        /\ Exited => (exitCode = -1 /\ stderr # <<>> /\ stdout = <<>> /\ pos = 0)

C7_AtExit ==
    (Exited /\ video.opened /\ cfg.startFrame <= video.length) =>
        LET upper == IF cfg.endFrame = 0
                     THEN video.length
                     ELSE Min(video.length, cfg.endFrame)
        IN  /\ exitCode = 0
            /\ DetectedFrames = Range(cfg.startFrame, upper)
            /\ \A k \in 1..Len(processed) :
                   processed[k].position = processed[k].frame_id
            /\ pos = Max(cfg.startFrame, upper)
            /\ failedReads =
                   (IF cfg.endFrame = 0 \/ cfg.endFrame > video.length
                    THEN 1 ELSE 0)

\* C7: the property above holds whenever the run has ended, and every run
\* ends.
C7_LoopBounds == [](C7_AtExit /\ failedReads <= 1) /\ <>Exited

C7_Witness ==
    /\ Exited
    /\ video.opened
    /\ cfg.startFrame = 1
    /\ cfg.endFrame = 2
    /\ video.length = 3
    /\ DetectedFrames = <<1>>
    /\ failedReads = 0

\* C8: the frame indices of the records on standard output are strictly
\* increasing, and each record carries the stream position (counted from
\* 0, skipped frames included) of the frame it was computed from.
C8_RecordsInFrameOrder ==
    /\ \A r \in 1..(Len(stdout) - 1) :
           stdout[r].frame_id < stdout[r + 1].frame_id
    /\ \A r \in 1..Len(stdout) :
           \E k \in 1..Len(processed) :
               /\ processed[k].position = stdout[r].frame_id
               /\ processed[k].frame_id = stdout[r].frame_id
               /\ processed[k].markerCount = Len(stdout[r].detections)

C8_Witness ==
    /\ Exited
    /\ cfg.startFrame = 1
    /\ Len(processed) = 2
    /\ stdout = <<EmptyFrameRecord(1), EmptyFrameRecord(2)>>

C10_PrincipalPointFromFrame ==
    cameraMatrix.built =>
        /\ pos > 0
        /\ cameraMatrix.cx2 = video.cols
        /\ cameraMatrix.cy2 = video.rows

====
